---- MODULE Spec2Model ----
(***************************************************************************)
(* A model of the crowdin-api client.  The repository holds two revisions  *)
(* of the client class: src/index.js (the API key is the only credential   *)
(* and every operation takes the project name as its first argument) and   *)
(* src/unnamed/part_001 (credentials are either an API key or a            *)
(* login/account-key pair, and the project name is a constructor option).  *)
(* The helpers resultToError, parseError, handlePromise, handleStream and  *)
(* packFiles are the same in both.  The variable rev says which revision   *)
(* a behaviour runs.                                                       *)
(***************************************************************************)
EXTENDS Integers, Sequences, FiniteSets, TLC

VARIABLES
  rev,        \* which revision of the class is loaded
  ctor,       \* the constructor call: its options and how it ended
  client,     \* the fields of the constructed object (this.*)
  calls,      \* one record per operation call of the caller
  tempFiles   \* the temp directory: path -> contents written so far

vars == <<rev, ctor, client, calls, tempFiles>>

(***************************************************************************)
(* JavaScript values.  Every value is a record [type, value] so that any   *)
(* two of them can be compared; value is the text the value has when it is *)
(* put into a template string, a query string or a form field.             *)
(***************************************************************************)
Undefined == [type |-> "undefined", value |-> "undefined", fields |-> <<>>]
Str(s) == [type |-> "string", value |-> s, fields |-> <<>>]
True == [type |-> "boolean", value |-> "true", fields |-> <<>>]
\* a caller's stream object, named s
Stream(s) == [type |-> "stream", value |-> s, fields |-> <<>>]
\* an object literal: fields is a function from property names to values
Obj(f) == [type |-> "object", value |-> "[object Object]", fields |-> f]

\* {}: the function with the empty domain
EmptyObj == <<>>

\* JavaScript truthiness of the values used here
Truthy(v) == v # Undefined /\ v # Str("")

\* `${v}` in a template string
Interp(v) == v.value

\* { ...a, ...b } on the property maps: the properties of b win
Spread(a, b) ==
  [k \in DOMAIN a \cup DOMAIN b |-> IF k \in DOMAIN b THEN b[k] ELSE a[k]]

\* reading a property that may be absent; destructuring an options object
Get(o, k) == IF k \in DOMAIN o THEN o[k] ELSE Undefined

\* the i-th positional argument of a call, undefined when not passed
Arg(args, i) == IF i \in 1..Len(args) THEN args[i] ELSE Undefined

(***************************************************************************)
(* The constructor.  Its result is [threw, self]: threw is the message of  *)
(* the Error it throws ("" when it returns), self the fields assigned.     *)
(***************************************************************************)
DefaultBaseUrl == "https://api.crowdin.com"

NoClient ==
  [baseUrl |-> "", apiKey |-> Undefined, projectName |-> Undefined,
   credentials |-> EmptyObj]

CredentialsMessage ==
  "Please specify CrowdIn credentials with login and accountKey options. If you have a legacy key from the project settings page then pass just the apiKey setting."

ProjectMessage == "Please specify CrowdIn project."

ApiKeyMessage == "Please specify CrowdIn API key."

\* ConstructorAccount with the two credential forms stored the wrong way round
ConstructorAccountSwapped(opts) ==
  LET apiKey == Get(opts, "apiKey")
      login == Get(opts, "login")
      accountKey == Get(opts, "accountKey")
      projectName == Get(opts, "projectName")
      accountCredentials == Truthy(login) /\ Truthy(accountKey)
      projectCredentials == Truthy(apiKey)
      credentials ==
        IF accountCredentials
          THEN [k \in {"key"} |-> apiKey]
          ELSE [k \in {"login", "account-key"} |->
                  IF k = "login" THEN login ELSE accountKey]
      self == [baseUrl |-> DefaultBaseUrl, apiKey |-> apiKey,
               projectName |-> projectName, credentials |-> credentials]
  IN  IF projectCredentials = accountCredentials
        THEN [threw |-> CredentialsMessage, self |-> NoClient]
        ELSE IF ~Truthy(projectName)
          THEN [threw |-> ProjectMessage, self |-> NoClient]
          ELSE [threw |-> "", self |-> self]

\* ConstructorAccount without the check of projectName
ConstructorAccountNoProject(opts) ==
  LET apiKey == Get(opts, "apiKey")
      login == Get(opts, "login")
      accountKey == Get(opts, "accountKey")
      projectName == Get(opts, "projectName")
      accountCredentials == Truthy(login) /\ Truthy(accountKey)
      projectCredentials == Truthy(apiKey)
      credentials ==
        IF projectCredentials
          THEN [k \in {"key"} |-> apiKey]
          ELSE [k \in {"login", "account-key"} |->
                  IF k = "login" THEN login ELSE accountKey]
      self == [baseUrl |-> DefaultBaseUrl, apiKey |-> apiKey,
               projectName |-> projectName, credentials |-> credentials]
  IN  IF projectCredentials = accountCredentials
        THEN [threw |-> CredentialsMessage, self |-> NoClient]
        ELSE [threw |-> "", self |-> self]

\* src/unnamed/part_001: constructor({ baseUrl, apiKey, login, accountKey, projectName })
ConstructorAccount(opts) ==
  LET apiKey == Get(opts, "apiKey")
      login == Get(opts, "login")
      accountKey == Get(opts, "accountKey")
      projectName == Get(opts, "projectName")
      accountCredentials == Truthy(login) /\ Truthy(accountKey)
      projectCredentials == Truthy(apiKey)
      credentials ==
        IF projectCredentials
          THEN [k \in {"key"} |-> apiKey]
          ELSE [k \in {"login", "account-key"} |->
                  IF k = "login" THEN login ELSE accountKey]
      self == [baseUrl |-> DefaultBaseUrl, apiKey |-> apiKey,
               projectName |-> projectName, credentials |-> credentials]
  IN  IF projectCredentials = accountCredentials
        THEN [threw |-> CredentialsMessage, self |-> NoClient]
        ELSE IF ~Truthy(projectName)
          THEN [threw |-> ProjectMessage, self |-> NoClient]
          ELSE [threw |-> "", self |-> self]

\* src/index.js: constructor({ baseUrl, apiKey })
ConstructorLegacy(opts) ==
  LET apiKey == Get(opts, "apiKey")
      self == [baseUrl |-> DefaultBaseUrl, apiKey |-> apiKey,
               projectName |-> Undefined, credentials |-> EmptyObj]
  IN  IF ~Truthy(apiKey)
        THEN [threw |-> ApiKeyMessage, self |-> NoClient]
        ELSE [threw |-> "", self |-> self]

Revisions == {"index.js", "part_001"}

CrowdinApi(r, opts) ==
  IF r = "part_001" THEN ConstructorAccount(opts) ELSE ConstructorLegacy(opts)

(***************************************************************************)
(* The request builder.  A request is what is handed to the HTTP library:  *)
(* [method, uri, qs, formData].                                            *)
(***************************************************************************)
uri(self, path) == self.baseUrl \o "/api/" \o path

\* the credential fields a revision puts into every query string
CredentialQs(r, self) ==
  IF r = "part_001" THEN self.credentials ELSE [k \in {"key"} |-> self.apiKey]

JsonQs == [k \in {"json"} |-> True]

\* getPromise(path): a second argument passed by a caller is not a parameter
getPromise(r, self, path) ==
  [via |-> "handlePromise", method |-> "GET", uri |-> uri(self, path),
   qs |-> Spread(JsonQs, CredentialQs(r, self)), formData |-> EmptyObj]

\* postPromise with the caller's qs spread after json and the credentials
postPromiseQsLast(r, self, path, qs, data) ==
  [via |-> "handlePromise", method |-> "POST", uri |-> uri(self, path),
   qs |-> Spread(Spread(JsonQs, CredentialQs(r, self)), qs), formData |-> data]

\* postPromise(path, qs = {}, data)
postPromise(r, self, path, qs, data) ==
  [via |-> "handlePromise", method |-> "POST", uri |-> uri(self, path),
   qs |-> Spread(Spread(qs, JsonQs), CredentialQs(r, self)), formData |-> data]

\* getStream(path, qs = {})
getStream(r, self, path, qs) ==
  [via |-> "handleStream", method |-> "GET", uri |-> uri(self, path),
   qs |-> Spread(Spread(qs, JsonQs), CredentialQs(r, self)),
   formData |-> EmptyObj]

(***************************************************************************)
(* The file packer.                                                        *)
(***************************************************************************)
\* fs.createReadStream(path): a new stream reading the file at path
createReadStream(path) == Stream("ReadStream(" \o path \o ")")

\* packFiles without the typeof test: every value is opened as a path
packFilesAllOpened(files) ==
  LET field(p) == "files[" \o p \o "]"
      path(f) == CHOOSE p \in DOMAIN files : field(p) = f
  IN  [f \in {field(p) : p \in DOMAIN files} |->
         createReadStream(files[path(f)].value)]

\* packFiles(files) on the property map of files
packFiles(files) ==
  LET field(p) == "files[" \o p \o "]"
      path(f) == CHOOSE p \in DOMAIN files : field(p) = f
  IN  [f \in {field(p) : p \in DOMAIN files} |->
         IF files[path(f)].type = "string"
           THEN createReadStream(files[path(f)].value)
           ELSE files[path(f)]]

(***************************************************************************)
(* The operation methods.  args is the list of arguments as the caller     *)
(* wrote them.  In src/index.js every method takes the project name as its *)
(* first parameter; in src/unnamed/part_001 it is this.projectName.  A     *)
(* method returns the request it hands to getPromise, postPromise or       *)
(* getStream, or Thrown when it throws before building one.                *)
(***************************************************************************)
Thrown ==
  [via |-> "throw", method |-> "", uri |-> "", qs |-> EmptyObj,
   formData |-> EmptyObj]

\* the project name interpolated into the path
Project(r, self, args) ==
  IF r = "part_001" THEN Interp(self.projectName) ELSE Interp(Arg(args, 1))

\* the i-th parameter after the project name
Param(r, args, i) == IF r = "part_001" THEN Arg(args, i) ELSE Arg(args, i + 1)

\* Object.keys(undefined) throws a TypeError
KeysThrow(v) == v.type = "undefined"

addFile(r, self, args) ==
  LET files == Param(r, args, 1)  params == Param(r, args, 2)
  IN  IF KeysThrow(files) THEN Thrown
      ELSE postPromise(r, self, "project/" \o Project(r, self, args) \o "/add-file",
             EmptyObj, Spread(packFiles(files.fields), params.fields))

updateFile(r, self, args) ==
  LET files == Param(r, args, 1)  params == Param(r, args, 2)
  IN  IF KeysThrow(files) THEN Thrown
      ELSE postPromise(r, self, "project/" \o Project(r, self, args) \o "/update-file",
             EmptyObj, Spread(packFiles(files.fields), params.fields))

deleteFile(r, self, args) ==
  postPromise(r, self, "project/" \o Project(r, self, args) \o "/delete-file",
    EmptyObj, [k \in {"file"} |-> Param(r, args, 1)])

updateTranslations(r, self, args) ==
  LET files == Param(r, args, 1)  language == Param(r, args, 2)
      params == Param(r, args, 3)
      packed == Spread(packFiles(files.fields), params.fields)
  IN  IF KeysThrow(files) THEN Thrown
      ELSE postPromise(r, self,
             "project/" \o Project(r, self, args) \o "/upload-translation", EmptyObj,
             IF r = "part_001"
               THEN Spread(packed, [k \in {"language"} |-> language])
               ELSE packed)

translationStatus(r, self, args) ==
  postPromise(r, self, "project/" \o Project(r, self, args) \o "/status",
    EmptyObj, EmptyObj)

languageStatus(r, self, args) ==
  postPromise(r, self, "project/" \o Project(r, self, args) \o "/language-status",
    EmptyObj, [k \in {"language"} |-> Param(r, args, 1)])

projectInfo(r, self, args) ==
  postPromise(r, self, "project/" \o Project(r, self, args) \o "/info",
    EmptyObj, EmptyObj)

reportedIssues(r, self, args) ==
  postPromise(r, self, "project/" \o Project(r, self, args) \o "/language-status",
    EmptyObj, Param(r, args, 1).fields)

exportFile(r, self, args) ==
  LET file == Param(r, args, 1)  language == Param(r, args, 2)
      params == Param(r, args, 3)
  IN  getStream(r, self, "project/" \o Project(r, self, args) \o "/export-file",
        Spread(params.fields,
               [k \in {"file", "language"} |-> IF k = "file" THEN file ELSE language]))

downloadTranslations(r, self, args) ==
  getStream(r, self,
    "project/" \o Project(r, self, args) \o "/download/"
      \o Interp(Param(r, args, 1)) \o ".zip", EmptyObj)

downloadAllTranslations(r, self, args) ==
  getStream(r, self, "project/" \o Project(r, self, args) \o "/download/all.zip",
    EmptyObj)

exportTranslations(r, self, args) ==
  getPromise(r, self, "project/" \o Project(r, self, args) \o "/export")

\* passes { branch } as a second argument, which getPromise does not take
translationExportStatus(r, self, args) ==
  getPromise(r, self, "project/" \o Project(r, self, args) \o "/export-status")

preTranslate(r, self, args) ==
  LET languages == Param(r, args, 1)  files == Param(r, args, 2)
      params == Param(r, args, 3)
  IN  postPromise(r, self, "project/" \o Project(r, self, args) \o "/pre-translate",
        EmptyObj,
        Spread(params.fields,
               [k \in {"languages", "files"} |->
                  IF k = "languages" THEN languages ELSE files]))

editProject(r, self, args) ==
  postPromise(r, self, "project/" \o Project(r, self, args) \o "/edit-project",
    EmptyObj, Param(r, args, 1).fields)

deleteProject(r, self, args) ==
  postPromise(r, self, "project/" \o Project(r, self, args) \o "/delete-project",
    EmptyObj, EmptyObj)

createDirectory(r, self, args) ==
  postPromise(r, self, "project/" \o Project(r, self, args) \o "/add-directory",
    Param(r, args, 2).fields, [k \in {"name"} |-> Param(r, args, 1)])

changeDirectory(r, self, args) ==
  postPromise(r, self, "project/" \o Project(r, self, args) \o "/change-directory",
    Param(r, args, 2).fields, [k \in {"name"} |-> Param(r, args, 1)])

deleteDirectory(r, self, args) ==
  postPromise(r, self, "project/" \o Project(r, self, args) \o "/delete-directory",
    EmptyObj, [k \in {"name"} |-> Param(r, args, 1)])

downloadGlossary(r, self, args) ==
  getStream(r, self, "project/" \o Project(r, self, args) \o "/download-glossary",
    EmptyObj)

uploadGlossary(r, self, args) ==
  LET f == Param(r, args, 1)
      fileNameOrStream == IF f.type = "string" THEN createReadStream(f.value) ELSE f
  IN  postPromise(r, self, "project/" \o Project(r, self, args) \o "/upload-glossary",
        EmptyObj, [k \in {"file"} |-> fileNameOrStream])

downloadTranslationMemory(r, self, args) ==
  postPromise(r, self, "project/" \o Project(r, self, args) \o "/download-tm",
    EmptyObj, EmptyObj)

uploadTranslationMemory(r, self, args) ==
  LET f == Param(r, args, 1)
      fileNameOrStream == IF f.type = "string" THEN createReadStream(f.value) ELSE f
  IN  postPromise(r, self, "project/" \o Project(r, self, args) \o "/upload-tm",
        EmptyObj, [k \in {"file"} |-> fileNameOrStream])

supportedLanguages(r, self, args) == getPromise(r, self, "supported-languages")

\* passes params as a second argument, which getPromise does not take
pseudoExport(r, self, args) ==
  getPromise(r, self, "project/" \o Project(r, self, args) \o "/pseudo-export")

pseudoDownload(r, self, args) ==
  getStream(r, self, "project/" \o Project(r, self, args) \o "/pseudo-download",
    EmptyObj)

exportCostsEstimationReport(r, self, args) ==
  LET language == Param(r, args, 1)  params == Param(r, args, 2)
  IN  postPromise(r, self,
        "project/" \o Project(r, self, args) \o "/reports/costs-estimation/export",
        EmptyObj,
        IF r = "part_001"
          THEN Spread(params.fields, [k \in {"language"} |-> language])
          ELSE params.fields)

downloadCostsEstimationReport(r, self, args) ==
  getStream(r, self,
    "project/" \o Project(r, self, args) \o "/reports/costs-estimation/download",
    [k \in {"hash"} |-> Param(r, args, 1)])

exportTranslationCostsReport(r, self, args) ==
  postPromise(r, self,
    "project/" \o Project(r, self, args) \o "/reports/translation-costs/export",
    EmptyObj, Param(r, args, 1).fields)

downloadTranslationCostsReport(r, self, args) ==
  getStream(r, self,
    "project/" \o Project(r, self, args) \o "/reports/translation-costs/download",
    [k \in {"hash"} |-> Param(r, args, 1)])

exportTopMembersReport(r, self, args) ==
  postPromise(r, self,
    "project/" \o Project(r, self, args) \o "/reports/top-members/export",
    EmptyObj, Param(r, args, 1).fields)

downloadTopMembersReport(r, self, args) ==
  getStream(r, self,
    "project/" \o Project(r, self, args) \o "/reports/top-members/download",
    [k \in {"hash"} |-> Param(r, args, 1)])

Methods ==
  {"addFile", "updateFile", "deleteFile", "updateTranslations",
   "translationStatus", "languageStatus", "projectInfo", "reportedIssues",
   "exportFile", "downloadTranslations", "downloadAllTranslations",
   "exportTranslations", "translationExportStatus", "preTranslate",
   "editProject", "deleteProject", "createDirectory", "changeDirectory",
   "deleteDirectory", "downloadGlossary", "uploadGlossary",
   "downloadTranslationMemory", "uploadTranslationMemory",
   "supportedLanguages", "pseudoExport", "pseudoDownload",
   "exportCostsEstimationReport", "downloadCostsEstimationReport",
   "exportTranslationCostsReport", "downloadTranslationCostsReport",
   "exportTopMembersReport", "downloadTopMembersReport"}

\* api[m](...args)
Invoke(m, r, self, args) ==
  CASE m = "addFile" -> addFile(r, self, args)
    [] m = "updateFile" -> updateFile(r, self, args)
    [] m = "deleteFile" -> deleteFile(r, self, args)
    [] m = "updateTranslations" -> updateTranslations(r, self, args)
    [] m = "translationStatus" -> translationStatus(r, self, args)
    [] m = "languageStatus" -> languageStatus(r, self, args)
    [] m = "projectInfo" -> projectInfo(r, self, args)
    [] m = "reportedIssues" -> reportedIssues(r, self, args)
    [] m = "exportFile" -> exportFile(r, self, args)
    [] m = "downloadTranslations" -> downloadTranslations(r, self, args)
    [] m = "downloadAllTranslations" -> downloadAllTranslations(r, self, args)
    [] m = "exportTranslations" -> exportTranslations(r, self, args)
    [] m = "translationExportStatus" -> translationExportStatus(r, self, args)
    [] m = "preTranslate" -> preTranslate(r, self, args)
    [] m = "editProject" -> editProject(r, self, args)
    [] m = "deleteProject" -> deleteProject(r, self, args)
    [] m = "createDirectory" -> createDirectory(r, self, args)
    [] m = "changeDirectory" -> changeDirectory(r, self, args)
    [] m = "deleteDirectory" -> deleteDirectory(r, self, args)
    [] m = "downloadGlossary" -> downloadGlossary(r, self, args)
    [] m = "uploadGlossary" -> uploadGlossary(r, self, args)
    [] m = "downloadTranslationMemory" -> downloadTranslationMemory(r, self, args)
    [] m = "uploadTranslationMemory" -> uploadTranslationMemory(r, self, args)
    [] m = "supportedLanguages" -> supportedLanguages(r, self, args)
    [] m = "pseudoExport" -> pseudoExport(r, self, args)
    [] m = "pseudoDownload" -> pseudoDownload(r, self, args)
    [] m = "exportCostsEstimationReport" -> exportCostsEstimationReport(r, self, args)
    [] m = "downloadCostsEstimationReport" -> downloadCostsEstimationReport(r, self, args)
    [] m = "exportTranslationCostsReport" -> exportTranslationCostsReport(r, self, args)
    [] m = "downloadTranslationCostsReport" -> downloadTranslationCostsReport(r, self, args)
    [] m = "exportTopMembersReport" -> exportTopMembersReport(r, self, args)
    [] OTHER -> downloadTopMembersReport(r, self, args)

(***************************************************************************)
(* The response normalizer.  Parsed JSON values and errors are JavaScript  *)
(* values as above; a completion is [kind, value] with kind "resolved" or  *)
(* "rejected".                                                             *)
(***************************************************************************)
Null == [type |-> "null", value |-> "null", fields |-> <<>>]
False == [type |-> "boolean", value |-> "false", fields |-> <<>>]
Num(n) == [type |-> "number", value |-> ToString(n), fields |-> <<>>]

\* an error object of class cls with the given message and own properties
Err(cls, message, props) == [type |-> cls, value |-> message, fields |-> props]

Resolved(v) == [kind |-> "resolved", value |-> v]
Rejected(e) == [kind |-> "rejected", value |-> e]
Pending == [kind |-> "pending", value |-> Undefined]

\* the response bodies of the model, as the text on the wire
ServiceErrorText ==
  "{\"success\":false,\"error\":{\"code\":\"404\",\"message\":\"Not Found\"}}"
NumericErrorText ==
  "{\"success\":false,\"error\":{\"code\":17,\"message\":\"Specified directory was not found\"}}"
SuccessText == "{\"success\":true}"
PlainText == "{\"files\":{},\"name\":\"docs\"}"
NoErrorText == "{\"success\":false}"
UnflaggedErrorText ==
  "{\"error\":{\"code\":\"500\",\"message\":\"Internal Server Error\"}}"
NullText == "null"
NumberText == "42"
ArchiveText == "PK..archive..bytes"
HtmlText == "<html>Bad Gateway</html>"

\* JSON.parse(text): [ok, value]; ok is FALSE when it throws a SyntaxError
JSONParse(text) ==
  CASE text = ServiceErrorText ->
         [ok |-> TRUE,
          value |-> Obj([success |-> False,
                         error |-> Obj([code |-> Str("404"),
                                        message |-> Str("Not Found")])])]
    [] text = NumericErrorText ->
         [ok |-> TRUE,
          value |-> Obj([success |-> False,
                         error |-> Obj([code |-> Num(17),
                                        message |-> Str("Specified directory was not found")])])]
    [] text = SuccessText -> [ok |-> TRUE, value |-> Obj([success |-> True])]
    [] text = PlainText ->
         [ok |-> TRUE, value |-> Obj([files |-> Obj(EmptyObj), name |-> Str("docs")])]
    [] text = NoErrorText -> [ok |-> TRUE, value |-> Obj([success |-> False])]
    [] text = UnflaggedErrorText ->
         [ok |-> TRUE,
          value |-> Obj([error |-> Obj([code |-> Str("500"),
                                        message |-> Str("Internal Server Error")])])]
    [] text = NullText -> [ok |-> TRUE, value |-> Null]
    [] text = NumberText -> [ok |-> TRUE, value |-> Num(42)]
    [] OTHER -> [ok |-> FALSE, value |-> Undefined]

SyntaxError == Err("SyntaxError", "Unexpected token in JSON", EmptyObj)
TypeError == Err("TypeError", "Cannot read property of undefined", EmptyObj)

\* v.k throws a TypeError when v is null or undefined
CanRead(v) == v.type \notin {"null", "undefined"}

\* resultToError(result): [threw, value]; threw when reading result.error.code throws
resultToError(result) ==
  IF ~CanRead(result) \/ ~CanRead(Get(result.fields, "error"))
    THEN [threw |-> TRUE, value |-> TypeError]
    ELSE LET error == Get(result.fields, "error")
         IN  [threw |-> FALSE,
              value |-> Err("Error",
                            "Error code " \o Interp(Get(error.fields, "code")) \o ": "
                              \o Interp(Get(error.fields, "message")),
                            EmptyObj)]

\* parseError(err)
parseError(err) ==
  LET response == Get(err.fields, "response")
      body == Get(response.fields, "body")
  IN  IF Truthy(response) /\ Truthy(body)
        THEN LET parsed == JSONParse(body.value)
             IN  IF ~parsed.ok \/ resultToError(parsed.value).threw
                   THEN err
                   ELSE resultToError(parsed.value).value
        ELSE err

\* handlePromise(request), given how the request promise settled
handlePromise(settled) ==
  IF settled.kind = "rejected"
    THEN Rejected(parseError(settled.value))
    ELSE LET parsed == JSONParse(settled.value.value)
             result == parsed.value
         IN  IF ~parsed.ok THEN Rejected(SyntaxError)
             ELSE IF ~CanRead(result) THEN Rejected(TypeError)
             ELSE IF Get(result.fields, "success") = False
               THEN Rejected(resultToError(result).value)
               ELSE Resolved(result)

(***************************************************************************)
(* The HTTP library, as the code uses it.  A JSON method awaits a          *)
(* request-promise call, which resolves with the body text of a 2xx        *)
(* response and rejects otherwise: with a StatusCodeError carrying the     *)
(* response for any other status, with a RequestError carrying none when   *)
(* the transport fails.                                                    *)
(***************************************************************************)
Statuses == {200, 404}

JsonTexts ==
  {ServiceErrorText, NumericErrorText, SuccessText, PlainText, NoErrorText,
   UnflaggedErrorText, NullText, NumberText, ArchiveText, HtmlText, ""}

RequestError == Err("RequestError", "Error: connect ECONNREFUSED", EmptyObj)

StatusCodeError(status, text) ==
  Err("StatusCodeError", ToString(status) \o " - " \o text,
      [response |-> Obj([statusCode |-> Num(status), body |-> Str(text)])])

\* how `await request` ends for a response [status, text], or for no response
requestPromise(failed, status, text) ==
  IF failed THEN Rejected(RequestError)
  ELSE IF status >= 200 /\ status < 300 THEN Resolved(Str(text))
  ELSE Rejected(StatusCodeError(status, text))

(***************************************************************************)
(* Calls.  A call record holds the position of the call's code (pc), the   *)
(* request it built (until the call's next step), the progress of the      *)
(* HTTP exchange of a download (net, status, body, emitted, err), the      *)
(* locals of                                                               *)
(* handleStream (path, out, statusCode, whether its listeners are          *)
(* attached), what the returned promise has settled to, and what the call  *)
(* wrote to the console.                                                   *)
(***************************************************************************)
MaxCalls == 2

CallIds == 1..MaxCalls

NoRequest ==
  [via |-> "", method |-> "", uri |-> "", qs |-> EmptyObj, formData |-> EmptyObj]

IdleCall ==
  [pc |-> "idle", method |-> "", args |-> <<>>, req |-> NoRequest, via |-> "",
   net |-> "none", status |-> 0, body |-> <<>>, emitted |-> 0, err |-> Undefined,
   listening |-> FALSE, piped |-> FALSE, statusCode |-> {},
   path |-> "", out |-> "none",
   outcome |-> Pending, logs |-> {}]

\* a promise settles once: later resolve and reject calls change nothing
Settle(outcome, completion) ==
  IF outcome.kind = "pending" THEN completion ELSE outcome

\* the bodies a download may receive, as the chunks the socket delivers
StreamBodies ==
  {<<"PK..archive", "..bytes">>,
   <<"{\"success\":false,", "\"error\":{\"code\":\"404\",\"message\":\"Not Found\"}}">>,
   <<HtmlText>>,
   <<NoErrorText>>,
   <<NullText>>,
   <<>>}

RECURSIVE Concat(_)
Concat(chunks) ==
  IF chunks = <<>> THEN "" ELSE Head(chunks) \o Concat(Tail(chunks))

\* the errors a request may emit: a socket error, and one carrying a response
StreamErrors ==
  {Err("Error", "socket hang up", EmptyObj),
   Err("Error", "aborted",
       [response |-> Obj([statusCode |-> Num(404), body |-> Str(ServiceErrorText)])])}

\* request.pipe(dest) after data was emitted or the response ended
PipeError ==
  Err("Error", "You cannot pipe after data has been emitted from the response.",
      EmptyObj)

TempError == Err("Error", "EMFILE: too many open files", EmptyObj)

\* temp.open handing out one fixed name
TempPathFixed(files) == "/tmp/crowdin-1"

\* temp.open('crowdin', cb): a name no earlier file has
TempPath(files) == "/tmp/crowdin-" \o ToString(Cardinality(DOMAIN files) + 1)

(***************************************************************************)
(* What the caller passes.                                                 *)
(***************************************************************************)
ProjectName == "project-name"

\* the options objects a caller constructs a client with
OptionObjects ==
  { [apiKey |-> k, login |-> l, accountKey |-> a, projectName |-> p] :
      k \in {Undefined, Str("abcd")}, l \in {Undefined, Str("user")},
      a \in {Undefined, Str("acct")}, p \in {Undefined, Str(ProjectName)} }

\* the options of the README: { apiKey: 'abcd', project: 'project-name' }
ReadmeOptions == [apiKey |-> Str("abcd"), project |-> Str(ProjectName)]

FileSet ==
  [p \in {"a/b.txt", "c.txt"} |->
     IF p = "a/b.txt" THEN Str("/local/b.txt") ELSE Stream("upload-1")]

\* the File Sets a caller uploads: every part of FileSet, the empty one included
FileSets == {[p \in S |-> FileSet[p]] : S \in SUBSET DOMAIN FileSet}

\* a params object of documented options, and one that names the fields the
\* library itself sets
PlainParams == [k \in {"branch", "format"} |-> IF k = "branch" THEN Str("dev") ELSE Str("xliff")]
HostileParams ==
  [k \in {"json", "key", "login", "account-key", "language"} |->
     IF k = "json" THEN Str("false") ELSE Str("intruder")]

\* the parameters of each method after the project name, by kind
Signature(m) ==
  CASE m \in {"addFile", "updateFile"} -> <<"files", "params">>
    [] m = "updateTranslations" -> <<"files", "id", "params">>
    [] m \in {"deleteFile", "languageStatus", "downloadTranslations",
              "translationExportStatus", "deleteDirectory",
              "downloadCostsEstimationReport", "downloadTranslationCostsReport",
              "downloadTopMembersReport"} -> <<"id">>
    [] m \in {"reportedIssues", "editProject", "pseudoExport",
              "exportTranslationCostsReport", "exportTopMembersReport"} -> <<"params">>
    [] m \in {"exportFile", "preTranslate"} -> <<"id", "id", "params">>
    [] m \in {"createDirectory", "changeDirectory",
              "exportCostsEstimationReport"} -> <<"id", "params">>
    [] m \in {"uploadGlossary", "uploadTranslationMemory"} -> <<"source">>
    [] OTHER -> <<>>

ArgValues(kind) ==
  CASE kind = "files" -> {Obj(files) : files \in FileSets}
    [] kind = "id" -> {Str("fr"), Undefined}
    [] kind = "params" -> {Undefined, Obj(PlainParams), Obj(HostileParams)}
    [] OTHER -> {Str("/local/terms.tbx"), Stream("upload-2")}

RECURSIVE ArgLists(_)
ArgLists(sig) ==
  IF sig = <<>> THEN {<<>>}
  ELSE {<<v>> \o rest : v \in ArgValues(Head(sig)), rest \in ArgLists(Tail(sig))}

\* the README's call: api.updateFile(files, ...)
ReadmeArgs == <<Obj(FileSet), Obj(PlainParams)>>

\* the argument lists a caller passes to method m of revision r
CallerArgs(r, m) ==
  IF r = "part_001" THEN ArgLists(Signature(m))
  ELSE {<<p>> \o a : p \in {Str(ProjectName), Undefined}, a \in ArgLists(Signature(m))}
         \cup (IF m = "updateFile" THEN {ReadmeArgs} ELSE {})

(***************************************************************************)
(* Init and the actions.                                                   *)
(***************************************************************************)
Init ==
  /\ rev \in Revisions
  /\ ctor = [state |-> "none", opts |-> EmptyObj, threw |-> ""]
  /\ client = NoClient
  /\ calls = [c \in CallIds |-> IdleCall]
  /\ tempFiles = <<>>

\* an uncaught exception ends the process
Crashed == \E c \in CallIds : calls[c].pc = "crashed"

\* new CrowdinApi(opts)
Construct(opts) ==
  /\ ctor.state = "none"
  /\ LET made == CrowdinApi(rev, opts)
     IN  /\ ctor' = [state |-> IF made.threw = "" THEN "constructed" ELSE "threw",
                     opts |-> opts, threw |-> made.threw]
         /\ client' = made.self
  /\ UNCHANGED <<rev, calls, tempFiles>>

\* the record of call c after a step of it: the request has left the caller
Step(c) == [calls[c] EXCEPT !.req = NoRequest, !.method = "", !.args = <<>>]

\* api[m](...args): the method runs up to its first await.  A JSON method has
\* handed its request to request-promise; a download has created its request
\* and called temp.open.
StartCall(c, m, args) ==
  /\ ctor.state = "constructed"
  /\ ~Crashed
  /\ calls[c].pc = "idle"
  /\ LET req == Invoke(m, rev, client, args)
     IN  calls' = [calls EXCEPT ![c] =
           [@ EXCEPT !.method = m, !.args = args, !.req = req, !.via = req.via,
                     !.pc = CASE req.via = "throw" -> "done"
                              [] req.via = "handlePromise" -> "await"
                              [] OTHER -> "opening",
                     !.net = IF req.via = "throw" THEN "none" ELSE "pending",
                     !.outcome = IF req.via = "throw" THEN Rejected(TypeError)
                                 ELSE Pending]]
  /\ UNCHANGED <<rev, ctor, client, tempFiles>>

\* the request promise of a JSON method settles and handlePromise runs on
AwaitRequest(c, failed, status, text) ==
  /\ ~Crashed
  /\ calls[c].pc = "await"
  /\ calls' = [calls EXCEPT ![c] =
       [Step(c) EXCEPT !.pc = "done",
                       !.net = IF failed THEN "failed" ELSE "ended",
                       !.status = IF failed THEN 0 ELSE status,
                       !.body = IF failed THEN <<>> ELSE <<text>>,
                       !.outcome = handlePromise(requestPromise(failed, status, text))]]
  /\ UNCHANGED <<rev, ctor, client, tempFiles>>

(***************************************************************************)
(* handleStream.  getStream creates the request (request.get) before it    *)
(* calls handleStream, and handleStream awaits temp.open before it         *)
(* attaches its listeners and pipes the request into the file: the events  *)
(* of the request may come while temp.open is pending.  An event emitted   *)
(* when no listener is attached is lost; an 'error' event emitted when no  *)
(* listener is attached is thrown, uncaught.                               *)
(***************************************************************************)
\* a comparison that lets an undefined statusCode pass
Below400Loose(statusCode) == \A n \in statusCode : n < 400

\* statusCode < 400, where statusCode is undefined until a response was seen
Below400(statusCode) == \E n \in statusCode : n < 400

\* `Error streaming from Crowdin: ${statusCode}`, a string
StreamingError(statusCode) ==
  Str("Error streaming from Crowdin: "
        \o (IF statusCode = {} THEN "undefined"
            ELSE ToString(CHOOSE n \in statusCode : TRUE)))

\* temp.open calls back with { path, fd }: the write stream is created, the
\* listeners are attached and the request is piped into the file
TempOpened(c) ==
  /\ ~Crashed
  /\ calls[c].pc = "opening"
  /\ LET path == TempPath(tempFiles)
         late == calls[c].emitted > 0 \/ calls[c].net = "ended"
     IN  /\ tempFiles' = [p \in DOMAIN tempFiles \cup {path} |->
                            IF p = path THEN "" ELSE tempFiles[p]]
         /\ calls' = [calls EXCEPT ![c] =
              [Step(c) EXCEPT !.pc = "piping", !.path = path, !.out = "open",
                              !.listening = TRUE,
                              !.piped = ~late,
                              !.outcome = IF late THEN Rejected(parseError(PipeError))
                                          ELSE @]]
  /\ UNCHANGED <<rev, ctor, client>>

\* temp.open calls back with an error: the await throws
TempOpenFails(c) ==
  /\ ~Crashed
  /\ calls[c].pc = "opening"
  /\ calls' = [calls EXCEPT ![c] =
       [Step(c) EXCEPT !.pc = "done", !.outcome = Rejected(TempError)]]
  /\ UNCHANGED <<rev, ctor, client, tempFiles>>

\* the response headers arrive: 'response' listener (statusCode = response.statusCode)
Response(c, status, body) ==
  /\ ~Crashed
  /\ calls[c].pc \in {"opening", "piping"}
  /\ calls[c].net = "pending"
  /\ calls' = [calls EXCEPT ![c] =
       [Step(c) EXCEPT !.net = "headers", !.status = status, !.body = body,
                       !.statusCode = IF calls[c].listening THEN {status} ELSE @]]
  /\ UNCHANGED <<rev, ctor, client, tempFiles>>

\* the next chunk of the body is emitted; the pipe writes it to the file
Data(c) ==
  /\ ~Crashed
  /\ calls[c].pc \in {"opening", "piping"}
  /\ calls[c].net = "headers"
  /\ calls[c].emitted < Len(calls[c].body)
  /\ calls' = [calls EXCEPT ![c] = [Step(c) EXCEPT !.emitted = @ + 1]]
  /\ tempFiles' = IF calls[c].piped
                    THEN [tempFiles EXCEPT ![calls[c].path] =
                            @ \o calls[c].body[calls[c].emitted + 1]]
                    ELSE tempFiles
  /\ UNCHANGED <<rev, ctor, client>>

\* the body ends; the pipe ends the write stream
End(c) ==
  /\ ~Crashed
  /\ calls[c].pc \in {"opening", "piping"}
  /\ calls[c].net = "headers"
  /\ calls[c].emitted = Len(calls[c].body)
  /\ calls' = [calls EXCEPT ![c] =
       [Step(c) EXCEPT !.net = "ended",
                       !.out = IF calls[c].piped THEN "ended" ELSE @]]
  /\ UNCHANGED <<rev, ctor, client, tempFiles>>

\* out emits 'close': the close listener runs up to its await
Close(c) ==
  /\ ~Crashed
  /\ calls[c].pc = "piping"
  /\ calls[c].out = "ended"
  /\ calls' = [calls EXCEPT ![c] =
       IF Below400(calls[c].statusCode)
         THEN [Step(c) EXCEPT !.out = "closed", !.pc = "done",
                              !.outcome = Settle(@, Resolved(Str(calls[c].path)))]
         ELSE [Step(c) EXCEPT !.out = "closed", !.pc = "reading"]]
  /\ UNCHANGED <<rev, ctor, client, tempFiles>>

\* fs.readFile calls back, with the contents of the file (readable) or with
\* an error: the rest of the close listener
ReadBack(c, readable) ==
  /\ ~Crashed
  /\ calls[c].pc = "reading"
  /\ LET body == tempFiles[calls[c].path]
         parsed == JSONParse(body)
         generic == Rejected(StreamingError(calls[c].statusCode))
     IN  calls' = [calls EXCEPT ![c] =
           IF ~readable
             THEN [Step(c) EXCEPT !.pc = "done",
                                  !.logs = @ \cup {"Error reading body file"},
                                  !.outcome = Settle(@, generic)]
           ELSE IF ~parsed.ok \/ resultToError(parsed.value).threw
             THEN [Step(c) EXCEPT !.pc = "done",
                                  !.logs = @ \cup {"Error parsing body", body},
                                  !.outcome = Settle(@, generic)]
             ELSE [Step(c) EXCEPT !.pc = "done",
                                  !.outcome =
                                    Settle(@, Rejected(resultToError(parsed.value).value))]]
  /\ UNCHANGED <<rev, ctor, client, tempFiles>>

\* the request emits 'error': reject(parseError(err)) when the listener is
\* attached, an uncaught exception when it is not
RequestFails(c, err) ==
  /\ ~Crashed
  /\ calls[c].via = "handleStream"
  /\ calls[c].net \in {"pending", "headers"}
  /\ calls' = [calls EXCEPT ![c] =
       IF calls[c].listening
         THEN [Step(c) EXCEPT !.net = "failed", !.err = err,
                              !.outcome = Settle(@, Rejected(parseError(err)))]
         ELSE [Step(c) EXCEPT !.net = "failed", !.err = err, !.pc = "crashed"]]
  /\ UNCHANGED <<rev, ctor, client, tempFiles>>

\* the caller makes one call: no other call of the client has started
Alone(c) ==
  /\ \A d \in CallIds : d < c => calls[d].pc # "idle"
  /\ \A d \in CallIds \ {c} : calls[d].pc = "idle"

Next ==
  \/ \E opts \in OptionObjects \cup {ReadmeOptions} : Construct(opts)
  \/ \E c \in CallIds, m \in Methods :
       \E args \in CallerArgs(rev, m) : Alone(c) /\ StartCall(c, m, args)
  \/ \E c \in CallIds, failed \in BOOLEAN, status \in Statuses, text \in JsonTexts :
       AwaitRequest(c, failed, status, text)
  \/ \E c \in CallIds : TempOpened(c)
  \/ \E c \in CallIds : TempOpenFails(c)
  \/ \E c \in CallIds, status \in Statuses, body \in StreamBodies :
       Response(c, status, body)
  \/ \E c \in CallIds : Data(c)
  \/ \E c \in CallIds : End(c)
  \/ \E c \in CallIds : Close(c)
  \/ \E c \in CallIds, readable \in BOOLEAN : ReadBack(c, readable)
  \/ \E c \in CallIds, err \in StreamErrors : RequestFails(c, err)

Spec == Init /\ [][Next]_vars

(***************************************************************************)
(* Progress.  The callback of temp.open is called, with a file or with an  *)
(* error; the request of a download goes on until it has delivered its     *)
(* whole body, unless it emits an error; a write stream that was ended     *)
(* closes; and fs.readFile calls back.                                     *)
(***************************************************************************)
Progress(c) ==
  /\ WF_vars(TempOpened(c) \/ TempOpenFails(c))
  /\ WF_vars(\/ \E status \in Statuses, body \in StreamBodies : Response(c, status, body)
             \/ Data(c) \/ End(c)
             \/ \E err \in StreamErrors : RequestFails(c, err))
  /\ WF_vars(Close(c))
  /\ WF_vars(\E readable \in BOOLEAN : ReadBack(c, readable))

FairSpec == Spec /\ \A c \in CallIds : Progress(c)

(***************************************************************************)
(* Concurrent downloads.  The client has been constructed, and the caller  *)
(* starts downloads without waiting for the ones it started before: the    *)
(* events of their requests and of their temp files interleave freely.     *)
(***************************************************************************)
DownloadOptions ==
  [apiKey |-> Str("abcd"), login |-> Undefined, accountKey |-> Undefined,
   projectName |-> Str(ProjectName)]

\* the bodies the concurrent downloads receive: an archive and a service error
ConcurrentBodies ==
  {<<"PK..archive", "..bytes">>,
   <<"{\"success\":false,", "\"error\":{\"code\":\"404\",\"message\":\"Not Found\"}}">>}

InitDownloads ==
  /\ rev = "part_001"
  /\ ctor = [state |-> "constructed", opts |-> DownloadOptions, threw |-> ""]
  /\ client = CrowdinApi("part_001", DownloadOptions).self
  /\ calls = [c \in CallIds |-> IdleCall]
  /\ tempFiles = <<>>

NextDownloads ==
  \/ \E c \in CallIds : StartCall(c, "downloadGlossary", <<>>)
  \/ \E c \in CallIds : TempOpened(c)
  \/ \E c \in CallIds : TempOpenFails(c)
  \/ \E c \in CallIds, status \in Statuses, body \in ConcurrentBodies :
       Response(c, status, body)
  \/ \E c \in CallIds : Data(c)
  \/ \E c \in CallIds : End(c)
  \/ \E c \in CallIds : Close(c)
  \/ \E c \in CallIds, readable \in BOOLEAN : ReadBack(c, readable)
  \/ \E c \in CallIds, err \in StreamErrors : RequestFails(c, err)

SpecDownloads == InitDownloads /\ [][NextDownloads]_vars

(***************************************************************************)
(* The claims.                                                             *)
(***************************************************************************)
\* what the options of the constructor call give
KeyGiven == Truthy(Get(ctor.opts, "apiKey"))
PairGiven == Truthy(Get(ctor.opts, "login")) /\ Truthy(Get(ctor.opts, "accountKey"))
ProjectGiven == Truthy(Get(ctor.opts, "projectName"))

\* the one credential form the options give, as query fields
GivenCredentials ==
  IF KeyGiven
    THEN [k \in {"key"} |-> Get(ctor.opts, "apiKey")]
    ELSE [k \in {"login", "account-key"} |->
            IF k = "login" THEN Get(ctor.opts, "login")
            ELSE Get(ctor.opts, "accountKey")]

\* the statement of C1 about one revision's constructor
ExactlyOneCredential ==
  /\ KeyGiven = PairGiven => ctor.state = "threw"
  /\ KeyGiven # PairGiven /\ ProjectGiven =>
       /\ ctor.state = "constructed"
       /\ CredentialQs(rev, client) = GivenCredentials

\* C1 as stated: with no credential or with both forms the constructor throws;
\* with exactly one form and a project identifier it returns a client that
\* stores exactly that form.
C1_Original == ctor.state # "none" => ExactlyOneCredential

\* C1 (amended): this holds of the constructor of part_001; the constructor of
\* index.js knows the API key only: it throws exactly when apiKey is missing,
\* whatever login and accountKey are, and stores the key.
C1_ExactlyOneCredential ==
  ctor.state # "none" =>
    IF rev = "part_001" THEN ExactlyOneCredential
    ELSE /\ ctor.state = "threw" <=> ~KeyGiven
         /\ ctor.state = "constructed" =>
              CredentialQs(rev, client) = [k \in {"key"} |-> Get(ctor.opts, "apiKey")]

\* a part_001 client constructed from a login/account-key pair
C1_Witness ==
  /\ rev = "part_001" /\ ctor.state = "constructed"
  /\ PairGiven /\ ~KeyGiven
  /\ client.credentials = GivenCredentials

\* a configuration error: one of the constructor's messages was thrown
ConfigurationError ==
  /\ ctor.state = "threw"
  /\ ctor.threw \in {CredentialsMessage, ProjectMessage, ApiKeyMessage}

\* C2 as stated: whatever the credential options, constructing without a
\* project identifier throws a configuration error, and no call is ever made
\* on a client without one.
C2_Original ==
  ctor.state # "none" /\ ~ProjectGiven =>
    /\ ConfigurationError
    /\ \A c \in CallIds : calls[c].pc = "idle"

\* C2 (amended): this holds of part_001; the constructor of index.js takes no
\* project identifier (each method takes it as its first argument), so there
\* construction succeeds without one whenever apiKey is given.
C2_ProjectRequired ==
  ctor.state # "none" =>
    IF rev = "part_001"
      THEN /\ ~ProjectGiven =>
                /\ ConfigurationError
                /\ \A c \in CallIds : calls[c].pc = "idle"
           /\ ctor.state = "constructed" => client.projectName = Str(ProjectName)
      ELSE ctor.state = "constructed" <=> KeyGiven

\* part_001 given one valid credential form and no project name
C2_Witness ==
  /\ rev = "part_001" /\ KeyGiven # PairGiven /\ ~ProjectGiven
  /\ ctor.state = "threw" /\ ctor.threw = ProjectMessage

\* the call that has just built its request
Requesting(c) == calls[c].req.via \in {"handlePromise", "handleStream"}

\* C3: a client constructed with the README's options { apiKey, project } is
\* constructed without error, and the README's updateFile(files, ...) then
\* sends its request to project/<project name>/update-file.
C3_ReadmeUsage ==
  ctor.opts = ReadmeOptions =>
    /\ ctor.state = "constructed"
    /\ \A c \in CallIds :
         calls[c].method = "updateFile" /\ calls[c].args = ReadmeArgs =>
           /\ Requesting(c)
           /\ calls[c].req.uri =
                DefaultBaseUrl \o "/api/project/" \o ProjectName \o "/update-file"

\* C4: every request built by an operation method carries json=true and the
\* credential fields the client was configured with, whatever query
\* parameters the caller supplies.
C4_CredentialsInjected ==
  \A c \in CallIds :
    Requesting(c) =>
      /\ Get(calls[c].req.qs, "json") = True
      /\ IF rev = "part_001"
           THEN \A k \in DOMAIN GivenCredentials :
                  Get(calls[c].req.qs, k) = GivenCredentials[k]
           ELSE Get(calls[c].req.qs, "key") = Get(ctor.opts, "apiKey")

\* a request whose caller passed json, key, login and account-key as query
\* parameters
C4_Witness ==
  \E c \in CallIds :
    /\ Requesting(c)
    /\ calls[c].method \in {"createDirectory", "changeDirectory", "exportFile"}
    /\ \E i \in 1..Len(calls[c].args) : calls[c].args[i] = Obj(HostileParams)

\* the response body a call received, as text
Received(c) == Concat(calls[c].body)

\* text is a service error object {success: false, error: {code, message}}
IsServiceError(text) ==
  /\ JSONParse(text).ok
  /\ LET v == JSONParse(text).value
     IN  /\ Get(v.fields, "success") = False
         /\ {"code", "message"} \subseteq DOMAIN Get(v.fields, "error").fields

\* the text of the error the claims expect for a service error object
ServiceErrorMessage(text) ==
  LET error == Get(JSONParse(text).value.fields, "error").fields
  IN  "Error code " \o error["code"].value \o ": " \o error["message"].value

\* a JSON method whose response has arrived and was handled
JsonDone(c) ==
  calls[c].via = "handlePromise" /\ calls[c].pc = "done" /\ calls[c].net = "ended"

\* a download whose response was seen by its listener, whose body was written
\* to the file and whose close listener has finished
StreamDone(c) ==
  /\ calls[c].via = "handleStream" /\ calls[c].pc = "done"
  /\ calls[c].out = "closed" /\ calls[c].statusCode = {calls[c].status}

\* C5: whatever the method and the HTTP status, a response body that is a
\* service error object {success: false, error: {code: X, message: Y}} makes
\* the call fail with the error "Error code X: Y"; it never resolves.
C5_ServiceErrorFails ==
  \A c \in CallIds :
    (JsonDone(c) \/ StreamDone(c)) /\ IsServiceError(Received(c)) =>
      /\ calls[c].outcome.kind = "rejected"
      /\ calls[c].outcome.value.value = ServiceErrorMessage(Received(c))

\* C6: a JSON method whose 2xx response body is valid JSON without
\* success === false (an object or not) resolves with exactly the parsed value.
C6_ParsedUnchanged ==
  \A c \in CallIds :
    /\ JsonDone(c)
    /\ calls[c].status >= 200 /\ calls[c].status < 300
    /\ JSONParse(Received(c)).ok
    /\ Get(JSONParse(Received(c)).value.fields, "success") # False
    => calls[c].outcome = Resolved(JSONParse(Received(c)).value)

\* the value a request carries for field k, in its query or its form
Sent(c, k) ==
  IF k \in DOMAIN calls[c].req.qs THEN calls[c].req.qs[k]
  ELSE Get(calls[c].req.formData, k)

\* the caller passed the arguments the method's signature asks for
ProperCall(c) ==
  /\ Requesting(c)
  /\ Len(calls[c].args) =
       Len(Signature(calls[c].method)) + (IF rev = "part_001" THEN 0 ELSE 1)

\* C7: every optional parameter the caller supplies (a params object, the
\* branch of translationExportStatus) is in the request, as a query or form
\* field with the caller's value.
C7_ParamsPassedThrough ==
  \A c \in CallIds :
    ProperCall(c) =>
      /\ \A i \in 1..Len(Signature(calls[c].method)) :
           /\ Signature(calls[c].method)[i] = "params"
           /\ Param(rev, calls[c].args, i) = Obj(PlainParams)
           => \A k \in DOMAIN PlainParams : Sent(c, k) = PlainParams[k]
      /\ calls[c].method = "translationExportStatus"
           /\ Param(rev, calls[c].args, 1) # Undefined
           => Sent(c, "branch") = Param(rev, calls[c].args, 1)

\* the methods documented as downloading ZIP, TBX or TMX content
BinaryDownloads ==
  {"downloadTranslations", "downloadAllTranslations", "downloadGlossary",
   "downloadTranslationMemory", "pseudoDownload", "exportFile",
   "downloadCostsEstimationReport", "downloadTranslationCostsReport",
   "downloadTopMembersReport"}

\* C8: every method that downloads binary content hands its request to the
\* stream downloader (getStream), never to the JSON normalizer.
C8_BinaryViaStream ==
  \A c \in CallIds :
    Requesting(c) /\ calls[c].method \in BinaryDownloads =>
      calls[c].req.via = "handleStream"

\* a download whose whole body was piped into its file, which has closed
Completed(c) == calls[c].via = "handleStream" /\ calls[c].out = "closed"

\* C9: a download that completes with a status >= 400 is rejected: with the
\* service error when the body read back from the file is a service error
\* object, with the streaming error naming the status when the body is not
\* JSON or has no error object.
C9_StreamErrorStatus ==
  \A c \in CallIds :
    Completed(c) /\ calls[c].pc = "done" /\ calls[c].status >= 400 =>
      /\ calls[c].outcome.kind = "rejected"
      /\ IsServiceError(Received(c)) /\ "Error reading body file" \notin calls[c].logs =>
           calls[c].outcome.value.value = ServiceErrorMessage(Received(c))
      /\ ~JSONParse(Received(c)).ok
           \/ "error" \notin DOMAIN JSONParse(Received(c)).value.fields
           => calls[c].outcome.value =
                Str("Error streaming from Crowdin: " \o ToString(calls[c].status))

\* C10: a download that completes with status 200 resolves with the path of
\* a temp file that holds exactly the bytes of the response body.
C10_RoundTrip ==
  \A c \in CallIds :
    Completed(c) /\ calls[c].status = 200 =>
      /\ calls[c].outcome = Resolved(Str(calls[c].path))
      /\ calls[c].path \in DOMAIN tempFiles
      /\ tempFiles[calls[c].path] = Received(c)

\* the part of call c's own response body emitted since its request was piped
OwnBytes(c) ==
  IF calls[c].piped THEN Concat(SubSeq(calls[c].body, 1, calls[c].emitted)) ELSE ""

\* what call c settles to, from its own temp file, its own request's events
\* and its own response alone
OwnOutcome(c) ==
  LET call == calls[c]
      parsed == JSONParse(Concat(call.body))
      generic == Rejected(Str("Error streaming from Crowdin: "
                   \o (IF call.statusCode = {} THEN "undefined"
                       ELSE ToString(call.status))))
  IN  CASE call.path = "" -> Rejected(TempError)
        [] call.path # "" /\ ~call.piped -> Rejected(PipeError)
        [] call.path # "" /\ call.piped /\ call.net = "failed" ->
             Rejected(parseError(call.err))
        [] OTHER ->
             IF call.statusCode # {} /\ call.status < 400
               THEN Resolved(Str(call.path))
             ELSE IF "Error reading body file" \in call.logs
                       \/ ~parsed.ok \/ resultToError(parsed.value).threw
               THEN generic
               ELSE Rejected(resultToError(parsed.value).value)

\* C11: concurrent downloads of one client use different temp files, each
\* file holds only bytes of its own call's response, and the outcome of each
\* call is the one its own response and events determine.
C11_Isolation ==
  \A c \in CallIds :
    /\ \A d \in CallIds \ {c} :
         calls[c].path # "" /\ calls[d].path # "" => calls[c].path # calls[d].path
    /\ calls[c].path # "" =>
         /\ calls[c].path \in DOMAIN tempFiles
         /\ tempFiles[calls[c].path] = OwnBytes(c)
    /\ calls[c].statusCode \subseteq {calls[c].status}
    /\ calls[c].outcome.kind # "pending" => calls[c].outcome = OwnOutcome(c)

\* two downloads ran together, each past its first chunk while the other was
\* still streaming or not yet closed, and both completed: one resolved with
\* its file, the other rejected with the error of its own response
C11_Witness ==
  \E c, d \in CallIds :
    /\ c # d
    /\ calls[c].out = "closed" /\ calls[d].out = "closed"
    /\ calls[c].pc = "done" /\ calls[d].pc = "done"
    /\ calls[c].body # calls[d].body /\ calls[c].status # calls[d].status
    /\ calls[c].outcome = Resolved(Str(calls[c].path))
    /\ calls[d].outcome.kind = "rejected"
    /\ tempFiles[calls[c].path] = Concat(calls[c].body)
    /\ tempFiles[calls[d].path] = Concat(calls[d].body)

\* a JSON method whose HTTP call the transport rejected: no response at all,
\* or a response with a status outside 2xx
TransportRejected(c) ==
  /\ calls[c].via = "handlePromise" /\ calls[c].pc = "done"
  /\ \/ calls[c].net = "failed"
     \/ calls[c].net = "ended" /\ (calls[c].status < 200 \/ calls[c].status >= 300)

\* the error object the transport rejected call c's request with
TransportError(c) ==
  IF calls[c].net = "failed" THEN RequestError
  ELSE StatusCodeError(calls[c].status, Received(c))

\* C12: a JSON method rejected by the transport fails with the structured
\* error when the failure carries a body of the shape {success: false,
\* error: {code, message}}, and with the original transport error itself in
\* every other case.
C12_TransportFailure ==
  \A c \in CallIds :
    TransportRejected(c) =>
      calls[c].outcome =
        IF calls[c].net = "ended" /\ IsServiceError(Received(c))
          THEN Rejected(Err("Error", ServiceErrorMessage(Received(c)), EmptyObj))
          ELSE Rejected(TransportError(c))

\* an upload that has just built its request from a File Set alone (no params)
Uploading(c) ==
  /\ Requesting(c)
  /\ calls[c].method \in {"addFile", "updateFile"}
  /\ Param(rev, calls[c].args, 2) = Undefined

\* C13: the form fields packed from a File Set are exactly one field
\* files[<p>] per logical path <p>: a read stream newly opened on the file
\* when the entry's value is a string, the entry's value itself when it is a
\* stream; there is no other field.
C13_PackFiles ==
  \A c \in CallIds :
    Uploading(c) =>
      LET files == Param(rev, calls[c].args, 1).fields
          fields == calls[c].req.formData
      IN  /\ DOMAIN fields = {"files[" \o p \o "]" : p \in DOMAIN files}
          /\ Cardinality(DOMAIN fields) = Cardinality(DOMAIN files)
          /\ \A p \in DOMAIN files :
               fields["files[" \o p \o "]"] =
                 IF files[p].type = "string"
                   THEN Stream("ReadStream(" \o files[p].value \o ")")
                   ELSE files[p]

\* an upload of a File Set of two paths, one given as a local path and one as
\* a stream: the request has the two fields
C13_Witness ==
  \E c \in CallIds :
    /\ Uploading(c)
    /\ Param(rev, calls[c].args, 1) = Obj(FileSet)
    /\ calls[c].req.formData["files[a/b.txt]"] = Stream("ReadStream(/local/b.txt)")
    /\ calls[c].req.formData["files[c.txt]"] = Stream("upload-1")

\* the GET request of download c has been issued and has not ended or failed
InFlight(c) ==
  calls[c].via = "handleStream" /\ calls[c].net \in {"pending", "headers"}

\* the temp file of download c has been opened
Acquired(c) == calls[c].path # "" /\ calls[c].path \in DOMAIN tempFiles

\* C14: the temp file of a download is opened before its GET request is
\* issued: no request is in flight for a call that has no temp file yet, and
\* a call whose temp.open failed has rejected with that failure and has
\* issued no request.
C14_TempFileFirst ==
  \A c \in CallIds :
    /\ InFlight(c) => Acquired(c)
    /\ calls[c].via = "handleStream" /\ calls[c].pc = "done" /\ ~Acquired(c) =>
         /\ calls[c].outcome = Rejected(TempError)
         /\ calls[c].net = "none"

\* the request of download c emitted an error before any response arrived
FailedBeforeStatus(c) ==
  calls[c].via = "handleStream" /\ calls[c].net = "failed" /\ calls[c].status = 0

\* C15: when the request of a download emits an error before any status code
\* is known, at whatever moment after the request was issued, the call is
\* rejected at once with parseError of that error.
C15_ErrorBeforeStatus ==
  \A c \in CallIds :
    FailedBeforeStatus(c) => calls[c].outcome = Rejected(parseError(calls[c].err))

\* C16: a download resolves, with the path of its temp file, only when its
\* output file has closed and its listener saw a response with a status
\* below 400; it never resolves when no status was seen; and a call that met
\* no error of its temp file, pipe or request is rejected only after the close.
C16_ResolveAfterClose ==
  \A c \in CallIds :
    calls[c].via = "handleStream" =>
      /\ calls[c].outcome.kind = "resolved" =>
           /\ calls[c].out = "closed"
           /\ calls[c].statusCode = {calls[c].status} /\ calls[c].status < 400
           /\ calls[c].outcome.value = Str(calls[c].path)
      /\ calls[c].statusCode = {} => calls[c].outcome.kind # "resolved"
      /\ calls[c].outcome.kind = "rejected" /\ calls[c].piped /\ calls[c].net # "failed" =>
           calls[c].out = "closed"

\* one download resolved after its file closed, having seen status 200; another,
\* whose file closed too, never saw its status and has not resolved
C16_Witness ==
  \E c, d \in CallIds :
    /\ calls[c].out = "closed" /\ calls[c].statusCode = {200}
    /\ calls[c].outcome = Resolved(Str(calls[c].path))
    /\ calls[d].out = "closed" /\ calls[d].status = 200 /\ calls[d].statusCode = {}
    /\ calls[d].pc = "done" /\ calls[d].outcome.kind = "rejected"

\* the close listener of download c failed to read its file back or to parse
\* what it read, and logged that
RecoveryFailed(c) ==
  /\ Completed(c) /\ calls[c].pc = "done"
  /\ {"Error reading body file", "Error parsing body"} \cap calls[c].logs # {}

\* C17: when a download completes with a status >= 400 and reading the file
\* back or parsing it fails, the failure is logged only: the call is rejected
\* with the generic streaming error that names the status code, and nothing
\* is thrown.
C17_SecondaryLogged ==
  \A c \in CallIds :
    RecoveryFailed(c) /\ calls[c].status >= 400 =>
      /\ calls[c].outcome =
           Rejected(Str("Error streaming from Crowdin: " \o ToString(calls[c].status)))
      /\ ~Crashed

\* call c was made without one of the identifiers its method requires: the
\* project name (an argument in index.js), a file or directory name, a
\* language code, a report hash (the branch of translationExportStatus is
\* optional)
MissingIdentifier(c) ==
  /\ calls[c].method \in Methods
  /\ \/ rev = "index.js" /\ Arg(calls[c].args, 1) = Undefined
     \/ /\ calls[c].method # "translationExportStatus"
        /\ \E i \in 1..Len(Signature(calls[c].method)) :
             /\ Signature(calls[c].method)[i] = "id"
             /\ Param(rev, calls[c].args, i) = Undefined

\* C18: a method called without a required identifier fails and sends no
\* HTTP request.
C18_IdentifiersValidated ==
  \A c \in CallIds :
    MissingIdentifier(c) =>
      /\ ~Requesting(c)
      /\ calls[c].outcome.kind = "rejected"

\* the methods that take a language argument, and its position
LanguageArg(m) ==
  CASE m = "languageStatus" -> 1
    [] m = "updateTranslations" -> 2
    [] m = "exportFile" -> 2
    [] m = "exportCostsEstimationReport" -> 1
    [] OTHER -> 0

\* C20: a method that takes a language argument sends it as the field
\* language of its request, whatever the caller's params object holds.
C20_LanguageSent ==
  \A c \in CallIds :
    ProperCall(c) /\ LanguageArg(calls[c].method) > 0 =>
      /\ "language" \in DOMAIN calls[c].req.qs \cup DOMAIN calls[c].req.formData
      /\ Sent(c, "language") = Param(rev, calls[c].args, LanguageArg(calls[c].method))

\* C19: every download eventually completes, resolved or rejected, when its
\* request eventually emits an error or delivers its whole body, whatever the
\* order of the temp file's opening and the request's events.
C19_Terminates ==
  \A c \in CallIds :
    calls[c].via = "handleStream" ~> calls[c].outcome.kind # "pending"

\* the endpoint of a request: its HTTP method and its URI
Endpoint(req) == <<req.method, req.uri>>

\* C21: no two different operation methods send their request to the same
\* HTTP method and path: the endpoint of a request just built is the endpoint
\* of no request another method of the client builds; in particular
\* reportedIssues does not use the endpoint of languageStatus.
C21_EndpointsDistinct ==
  \A c \in CallIds :
    Requesting(c) =>
      \A m \in Methods \ {calls[c].method} :
        \A args \in CallerArgs(rev, m) :
          LET other == Invoke(m, rev, client, args)
          IN  other.via # "throw" => Endpoint(other) # Endpoint(calls[c].req)

====
